---- MODULE Spec2Model ----
(***************************************************************************)
(* The MeteoSwiss synchronisation scripts as a state machine.              *)
(*                                                                         *)
(* scripts/fetch_historical_data.py, fetch_recent_data.py and              *)
(* fetch_now_data.py share one structure: fetch_all_stations walks the     *)
(* paginated catalog, main loops over the stations, download_station_data  *)
(* selects the assets of the tier and download_csv transfers them.  The    *)
(* three scripts differ in the selection and in the presence policy; the   *)
(* variable tier says which script is running.                             *)
(*                                                                         *)
(* Python strings that the code inspects character by character (asset     *)
(* names) are sequences of one-character strings.                          *)
(***************************************************************************)
EXTENDS Integers, Sequences, FiniteSets, TLC

(***************************************************************************)
(* Bounds of the model.                                                    *)
(***************************************************************************)
MaxPages == 2

MaxRuns == 2

MaxAssets == 3

(***************************************************************************)
(* str.endswith and the `in` operator of Python on character sequences.    *)
(***************************************************************************)
endswith(s, suffix) ==
    /\ Len(suffix) <= Len(s)
    /\ SubSeq(s, Len(s) - Len(suffix) + 1, Len(s)) = suffix

contains(s, sub) ==
    \E i \in 1..(Len(s) - Len(sub) + 1) : SubSeq(s, i, i + Len(sub) - 1) = sub

(***************************************************************************)
(* The literals of the three selections.                                   *)
(***************************************************************************)
HistoricalInfix ==
    <<"_","t","_","h","i","s","t","o","r","i","c","a","l","_">>

CsvExt ==
    <<".","c","s","v">>

RecentSuffix ==
    <<"_","t","_","r","e","c","e","n","t",".","c","s","v">>

NowSuffix ==
    <<"_","t","_","n","o","w",".","c","s","v">>

Tiers == {"historical", "recent", "now"}

(***************************************************************************)
(* The condition each script applies to an asset name.                     *)
(***************************************************************************)
MatchesHistorical(name) ==
    contains(name, HistoricalInfix) /\ endswith(name, CsvExt)

MatchesRecent(name) == endswith(name, RecentSuffix)

MatchesNow(name) == endswith(name, NowSuffix)

(***************************************************************************)
(* An asset mapping is a Python dict: a sequence of [name, href] entries   *)
(* in insertion order, with distinct names.  NoHref is an entry without    *)
(* an href (asset_info.get('href') is None).                               *)
(***************************************************************************)
NoHref == ""

Asset(name, href) == [name |-> name, href |-> href]

\* The dict comprehension of the historical script: every matching entry.
historical_assets(assets) ==
    SelectSeq(assets, LAMBDA a : MatchesHistorical(a.name))

\* A recent script whose loop has no break: the last matching entry.
recent_asset_last(assets) ==
    LET hits == {i \in 1..Len(assets) : MatchesRecent(assets[i].name)}
    IN  IF hits = {} THEN <<>>
        ELSE <<assets[CHOOSE i \in hits : \A j \in hits : i >= j]>>

\* A recent script that goes through every matching entry, as the historical does.
recent_asset_every(assets) ==
    SelectSeq(assets, LAMBDA a : MatchesRecent(a.name))

\* The for/break loop of the recent script: the first matching entry.
recent_asset(assets) ==
    LET hits == {i \in 1..Len(assets) : MatchesRecent(assets[i].name)}
    IN  IF hits = {} THEN <<>>
        ELSE <<assets[CHOOSE i \in hits : \A j \in hits : i <= j]>>

\* The for/break loop of the now script: the first matching entry.
now_asset(assets) ==
    LET hits == {i \in 1..Len(assets) : MatchesNow(assets[i].name)}
    IN  IF hits = {} THEN <<>>
        ELSE <<assets[CHOOSE i \in hits : \A j \in hits : i <= j]>>

\* The selection of the script of tier t, as the sequence it goes through.
SelectAssets(t, assets) ==
    CASE t = "historical" -> historical_assets(assets)
      [] t = "recent" -> recent_asset(assets)
      [] t = "now" -> now_asset(assets)

(***************************************************************************)
(* Asset names of the catalogs the model draws from.                       *)
(***************************************************************************)
Name_abc_h8 ==
    <<"a","b","c","_","t","_","h","i","s","t","o","r","i","c","a","l","_","8",".","c","s","v">>

Name_abc_h7 ==
    <<"a","b","c","_","t","_","h","i","s","t","o","r","i","c","a","l","_","7",".","c","s","v">>

Name_abc_h9 ==
    <<"a","b","c","_","t","_","h","i","s","t","o","r","i","c","a","l","_","9",".","c","s","v">>

Name_abc_now ==
    <<"a","b","c","_","t","_","n","o","w",".","c","s","v">>

Name_abc_recent ==
    <<"a","b","c","_","t","_","r","e","c","e","n","t",".","c","s","v">>

Name_dup_h8 ==
    <<"d","u","p","_","t","_","h","i","s","t","o","r","i","c","a","l","_","8",".","c","s","v">>

Name_dup_txt ==
    <<"d","u","p","_","t","_","h","i","s","t","o","r","i","c","a","l","_","9",".","t","x","t">>

Name_dup_recent ==
    <<"d","u","p","_","t","_","r","e","c","e","n","t",".","c","s","v">>

Name_old_recent ==
    <<"o","l","d","_","t","_","r","e","c","e","n","t",".","c","s","v">>

Name_dup_now ==
    <<"d","u","p","_","t","_","n","o","w",".","c","s","v">>

Name_daily ==
    <<"d","a","y","_","d","_","h","i","s","t","o","r","i","c","a","l",".","c","s","v">>

Name_ABC_hist ==
    <<"A","B","C","_","t","_","h","i","s","t","o","r","i","c","a","l","_","1","9","9","0","-","1","9","9","9",".","c","s","v">>

Name_ABC_now ==
    <<"A","B","C","_","t","_","n","o","w",".","c","s","v">>

Name_ABC_recent ==
    <<"A","B","C","_","t","_","r","e","c","e","n","t",".","c","s","v">>

Name_mixed ==
    <<"a","b","c","_","t","_","h","i","s","t","o","r","i","c","a","l","_","_","t","_","n","o","w",".","c","s","v">>

Name_upper ==
    <<"a","b","c","_","t","_","r","e","c","e","n","t",".","C","S","V">>

(***************************************************************************)
(* Catalog features: {id, assets}.  abc holds two decade files with an     *)
(* href and one without, a now file and a recent file; dup holds one       *)
(* decade file, a file with the wrong extension, two recent files and a    *)
(* now file without an href; day holds no file of any tier; nil has an     *)
(* empty asset mapping.                                                    *)
(***************************************************************************)
St_abc ==
    [id |-> "abc",
     assets |-> << Asset(Name_abc_h8, "u1"), Asset(Name_abc_h7, NoHref),
                   Asset(Name_abc_h9, "u2"), Asset(Name_abc_now, "u3"),
                   Asset(Name_abc_recent, "u4") >>]

St_dup ==
    [id |-> "dup",
     assets |-> << Asset(Name_dup_txt, "u5"), Asset(Name_dup_h8, "u6"),
                   Asset(Name_dup_recent, "u7"), Asset(Name_old_recent, "u8"),
                   Asset(Name_dup_now, NoHref) >>]

St_day ==
    [id |-> "day", assets |-> << Asset(Name_daily, "u9") >>]

St_nil ==
    [id |-> "nil", assets |-> << >>]

StationOrder == << St_abc, St_nil, St_dup, St_day >>

(***************************************************************************)
(* Catalog pages: {features, links}.  A link is {rel, body: {cursor}};     *)
(* NoCursor is a link body without a cursor.  The cursor the catalog hands *)
(* out on page i is the number of the page it continues with.              *)
(***************************************************************************)
NoCursor == 0

Link(rel, cursor) == [rel |-> rel, cursor |-> cursor]

\* Link lists after which the walk stops: none, no `next`, `next` without cursor.
LastLinks ==
    { << >>,
      << Link("self", NoCursor) >>,
      << Link("self", NoCursor), Link("next", NoCursor), Link("next", 1) >> }

\* The link list that continues with page c: the first `next` link counts.
MoreLinks(c) ==
    << Link("self", NoCursor), Link("next", c), Link("next", NoCursor) >>

\* The stations of StationOrder that layout f puts on page i, in order.
PageFeatures(f, i) ==
    SelectSeq(StationOrder, LAMBDA st :
        \E j \in 1..Len(StationOrder) : StationOrder[j] = st /\ f[j] = i)

\* Layouts of the stations over n pages (0: not in the catalog), in order.
Layouts(n) ==
    { f \in [1..Len(StationOrder) -> 0..n] :
        \A i, j \in 1..Len(StationOrder) :
            (i < j /\ f[i] # 0 /\ f[j] # 0) => f[i] <= f[j] }

\* Catalogs of n pages; page i < n continues with page i + 1 or stops early.
CatalogsOf(n) ==
    { [i \in 1..n |-> [features |-> PageFeatures(f, i), links |-> l[i]]] :
        f \in Layouts(n),
        l \in { m \in [1..n -> LastLinks \cup {MoreLinks(c) : c \in 2..n}] :
                  /\ m[n] \in LastLinks
                  /\ \A i \in 1..(n - 1) :
                        m[i] \in LastLinks \cup {MoreLinks(i + 1)}
                  /\ \A i \in 2..n :
                        (\E j \in 1..(i - 1) : m[j] \in LastLinks)
                            => m[i] = << >> } }

Catalogs == UNION { CatalogsOf(n) : n \in 1..MaxPages }

\* The catalogs that are walked to their last page, which has no links.
PlainCatalogs ==
    { c \in Catalogs :
        /\ c[Len(c)].links = << >>
        /\ \A i \in 1..(Len(c) - 1) : c[i].links = MoreLinks(i + 1) }


(***************************************************************************)
(* The local file system: fs maps every existing file to its content and   *)
(* dirs holds the existing directories.  A path is the sequence of its     *)
(* components.                                                             *)
(***************************************************************************)
Versions == {"v1", "v2"}

Truncated == "truncated"

OUTPUT_DIR(t) == << "meteoswiss_data", t >>

station_dir(t, station_id) == Append(OUTPUT_DIR(t), station_id)

\* A script that puts every file straight into the directory of the tier.
output_path_flat(t, station_id, asset_name) == Append(OUTPUT_DIR(t), asset_name)

output_path(t, station_id, asset_name) ==
    Append(station_dir(t, station_id), asset_name)

exists(files, path) == path \in DOMAIN files

(***************************************************************************)
(* What one call of download_csv meets: the GET succeeds and the body is   *)
(* written ("ok", with the body the server holds at that moment), the GET  *)
(* raises or answers with an error status ("neterr"), or the file is       *)
(* opened and the write raises ("writeerr").                               *)
(***************************************************************************)
Responses ==
    { [outcome |-> "ok", content |-> v] : v \in Versions }
        \cup { [outcome |-> o, content |-> "none"] : o \in {"neterr", "writeerr"} }

\* A download_csv that opens the file for exclusive creation.
download_csv_fs_keep(files, path, r) ==
    CASE r.outcome = "ok" /\ ~exists(files, path) -> (path :> r.content) @@ files
      [] OTHER -> files

\* A download_csv that opens the file before it sends the request.
download_csv_fs_open_first(files, path, r) ==
    CASE r.outcome = "ok" -> (path :> r.content) @@ files
      [] OTHER -> (path :> Truncated) @@ files

\* The file system after download_csv(url, path) met response r.
download_csv_fs(files, path, r) ==
    CASE r.outcome = "ok" -> (path :> r.content) @@ files
      [] r.outcome = "writeerr" -> (path :> Truncated) @@ files
      [] OTHER -> files

\* The value download_csv returns: True after the write, False from the except.
download_csv(r) == r.outcome = "ok"

VARIABLES
    catalog,            \* the remote catalog: the pages the search endpoint serves
    tier,               \* which script runs: historical, recent or now
    run,                \* the number of the invocation
    prev,               \* how the previous invocation ended ("none" for the first)
    pc,                 \* INIT, LISTING, CLASSIFYING, TRANSFERRING, SUMMARIZING, DONE, FAILED
    failure,            \* the exception that ended the process, or "none"
    payload,            \* fetch_all_stations: the search payload
    posts,              \* the POSTs of this invocation, in order: payload and status
    all_features,       \* fetch_all_stations: the features collected so far
    stations,           \* main: the list fetch_all_stations returned
    idx,                \* main: the index of the station being processed
    selected,           \* download_station_data: the assets selected for the station
    k,                  \* download_station_data: the position in selected
    downloaded,         \* download_station_data: the count it will return
    total_files,        \* main: the counter of files
    stations_with_data, \* main: the counter of stations with data
    processed,          \* per station finished in this invocation: its id and count
    events,             \* per asset handled in this invocation: what was done
    summary,            \* the summary printed at the end, or "none"
    fs,                 \* the files under meteoswiss_data
    dirs,               \* the directories under meteoswiss_data
    environ,            \* upload step: os.environ, the variables that are set
    upc,                \* upload step: START, VALIDATED, VERIFIED, CONNECTED,
                        \* GRID_PUT, FORECAST_PUT, LISTED, EXCEPT, EXITED
    calls,              \* upload step: the calls made to the warehouse, in order
    exit_status         \* upload step: the exit status of the process, once it ended

vars ==
    << catalog, tier, run, prev, pc, failure, payload, posts, all_features,
       stations, idx, selected, k, downloaded, total_files, stations_with_data,
       processed, events, summary, fs, dirs, environ, upc, calls, exit_status >>

\* The variables of the upload step, which the fetch scripts do not touch.
upload_vars == << environ, upc, calls, exit_status >>

\* The variables of one invocation of main that a step of the station loop keeps.
listing_vars == << payload, posts, all_features, stations >>

world_vars == << catalog, tier, run, prev, upload_vars >>

(***************************************************************************)
(* scripts/upload_to_snowflake.py, a process of its own: it reads seven    *)
(* environment variables, looks for the two files of the forecast under    *)
(* meteoswiss_data and talks to the warehouse.                             *)
(***************************************************************************)
None == "None"

CredentialNames ==
    { "SNOWFLAKE_ACCOUNT", "SNOWFLAKE_USER", "SNOWFLAKE_PASSWORD",
      "SNOWFLAKE_ROLE", "SNOWFLAKE_WAREHOUSE", "SNOWFLAKE_DATABASE",
      "SNOWFLAKE_SCHEMA" }

\* What a variable that is set can hold: the empty string or a value.
EnvValues == { "", "x" }

\* The environments: any of the seven variables set or not.
Environments == UNION { [d -> EnvValues] : d \in SUBSET CredentialNames }

\* os.getenv(name, default)
getenv(env, name, default) == IF name \in DOMAIN env THEN env[name] ELSE default

\* bool(v) of a str or None
truthy(v) == v # None /\ v # ""

account(env) == getenv(env, "SNOWFLAKE_ACCOUNT", None)

user(env) == getenv(env, "SNOWFLAKE_USER", None)

password(env) == getenv(env, "SNOWFLAKE_PASSWORD", None)

role(env) == getenv(env, "SNOWFLAKE_ROLE", "SYSADMIN")

warehouse(env) == getenv(env, "SNOWFLAKE_WAREHOUSE", "METEOSWISS_WH")

database(env) == getenv(env, "SNOWFLAKE_DATABASE", "METEOSWISS")

schema(env) == getenv(env, "SNOWFLAKE_SCHEMA", "BRONZE")

\* A validation that is content with an account.
credentials_valid_account(a, u, p) == truthy(a)

\* all([account, user, password])
credentials_valid(a, u, p) == truthy(a) /\ truthy(u) /\ truthy(p)

grid_file == << "meteoswiss_data", "icon_ch1_grid.csv" >>

forecast_file == << "meteoswiss_data", "icon_ch1_forecast_aswdir_s.csv" >>

\* Both `if not ....exists(): sys.exit(1)` passed.
files_verified(files) == exists(files, grid_file) /\ exists(files, forecast_file)

\* The file systems of the upload step: each of the two files there or not.
DataFiles == UNION { [d -> {"csv"}] : d \in SUBSET { grid_file, forecast_file } }

\* The keyword arguments of snowflake.connector.connect.
connect_parameters(env) ==
    [account |-> account(env), user |-> user(env), password |-> password(env),
     role |-> role(env), warehouse |-> warehouse(env),
     database |-> database(env), schema |-> schema(env)]

STAGE == "@bronze.stg_icon_ch1"

put_sql(file) ==
    [command |-> "PUT", file |-> file, stage |-> STAGE,
     auto_compress |-> FALSE, overwrite |-> TRUE]

grid_put_sql == put_sql(grid_file)

forecast_put_sql == put_sql(forecast_file)

list_sql == [command |-> "LIST", stage |-> STAGE]

\* One call to the warehouse connector and whether it returned or raised.
Call(op, arg, status) == [op |-> op, arg |-> arg, status |-> status]

\* The upload step has not been started.
UploadNotStarted ==
    /\ environ = [n \in CredentialNames |-> "x"]
    /\ upc = "START"
    /\ calls = << >>
    /\ exit_status = << >>

(***************************************************************************)
(* The search endpoint: the page a payload asks for.                       *)
(***************************************************************************)
COLLECTION_ID == "ch.meteoschweiz.ogd-smn"

InitialPayload ==
    [collections |-> << COLLECTION_ID >>, limit |-> 100, cursor |-> NoCursor]

Request(p, status) == [payload |-> p, status |-> status]

ServePage(p) ==
    catalog[IF p.cursor = NoCursor THEN 1 ELSE p.cursor]

\* next((link for link in links if link.get('rel') == 'next'), None), as a
\* sequence: empty for None.
next_link(links) ==
    LET hits == {i \in 1..Len(links) : links[i].rel = "next"}
    IN  IF hits = {} THEN << >>
        ELSE << links[CHOOSE i \in hits : \A j \in hits : i <= j] >>

\* Whether the while loop of fetch_all_stations goes on after this page.
continues(data) ==
    /\ next_link(data.links) # << >>
    /\ next_link(data.links)[1].cursor # NoCursor

\* A walker that takes the cursor of the last `next` link of the page.
next_payload_last(p, data) ==
    LET hits == {i \in 1..Len(data.links) : data.links[i].rel = "next"}
    IN  [p EXCEPT !.cursor =
            data.links[CHOOSE i \in hits : \A j \in hits : i >= j].cursor]

\* The payload of the next request.
next_payload(p, data) ==
    [p EXCEPT !.cursor = next_link(data.links)[1].cursor]

\* A walker that keeps the last page only.
extend_overwrite(features_so_far, features) == features

\* all_features.extend(features)
extend(features_so_far, features) == features_so_far \o features

\* A request cap: a catalog of MaxPages pages never needs more requests.
MaxRequests == MaxPages + 1

InitProcess ==
    /\ pc = "INIT"
    /\ failure = "none"
    /\ payload = InitialPayload
    /\ posts = << >>
    /\ all_features = << >>
    /\ stations = << >>
    /\ idx = 0
    /\ selected = << >>
    /\ k = 0
    /\ downloaded = 0
    /\ total_files = 0
    /\ stations_with_data = 0
    /\ processed = << >>
    /\ events = << >>
    /\ summary = "none"

Init ==
    /\ catalog \in PlainCatalogs
    /\ tier \in Tiers
    /\ run = 1
    /\ prev = "none"
    /\ fs = << >>
    /\ dirs = {}
    /\ UploadNotStarted
    /\ InitProcess


(***************************************************************************)
(* Module level and the head of main and fetch_all_stations: the output    *)
(* directory of the tier is created and the first payload is built.        *)
(***************************************************************************)
Begin ==
    /\ pc = "INIT"
    /\ pc' = "LISTING"
    /\ dirs' = dirs \cup { << "meteoswiss_data" >>, OUTPUT_DIR(tier) }
    /\ payload' = InitialPayload
    /\ all_features' = << >>
    /\ UNCHANGED << world_vars, failure, posts, stations, idx, selected, k,
                    downloaded, total_files, stations_with_data, processed,
                    events, summary, fs >>

(***************************************************************************)
(* main after fetch_all_stations returned: the counters are zeroed and the *)
(* station loop starts, or ends at once on an empty list.                  *)
(***************************************************************************)
EnterLoop(features) ==
    /\ stations' = features
    /\ total_files' = 0
    /\ stations_with_data' = 0
    /\ IF features = << >>
         THEN pc' = "SUMMARIZING" /\ idx' = 0
         ELSE pc' = "CLASSIFYING" /\ idx' = 1

(***************************************************************************)
(* One round of the while loop of fetch_all_stations with a response that  *)
(* parses: POST, extend, look for the next link, go on or return.          *)
(***************************************************************************)
FetchPageOk ==
    /\ pc = "LISTING"
    /\ Len(posts) < MaxRequests
    /\ LET data == ServePage(payload)
           features == extend(all_features, data.features)
       IN  /\ posts' = Append(posts, Request(payload, "ok"))
           /\ all_features' = features
           /\ IF continues(data)
                THEN /\ payload' = next_payload(payload, data)
                     /\ UNCHANGED << pc, stations, idx, total_files,
                                     stations_with_data >>
                ELSE /\ payload' = payload
                     /\ EnterLoop(features)
    /\ UNCHANGED << world_vars, failure, selected, k, downloaded, processed,
                    events, summary, fs, dirs >>

(***************************************************************************)
(* A walker that catches the exception of a request and returns what it    *)
(* has collected so far.                                                   *)
(***************************************************************************)
FetchPageFail_swallow ==
    /\ pc = "LISTING"
    /\ Len(posts) < MaxRequests
    /\ posts' = Append(posts, Request(payload, "error"))
    /\ EnterLoop(all_features)
    /\ UNCHANGED << world_vars, failure, payload, all_features, selected, k,
                    downloaded, processed, events, summary, fs, dirs >>

(***************************************************************************)
(* One round of the while loop with a request that raises (connection      *)
(* error, raise_for_status, response.json): nothing catches it, the        *)
(* process ends with the traceback.                                        *)
(***************************************************************************)
FetchPageFail ==
    /\ pc = "LISTING"
    /\ Len(posts) < MaxRequests
    /\ posts' = Append(posts, Request(payload, "error"))
    /\ pc' = "FAILED"
    /\ failure' = "CatalogUnavailable"
    /\ UNCHANGED << world_vars, payload, all_features, stations, idx, selected,
                    k, downloaded, total_files, stations_with_data, processed,
                    events, summary, fs, dirs >>

\* A main that counts every station it went through.
counts_as_data_always(n) == n >= 0

(***************************************************************************)
(* main when download_station_data returned n for the station at idx.      *)
(***************************************************************************)
counts_as_data(n) == n > 0

\* A main that asks the catalog again between two stations.
StationDone_relist(n) ==
    /\ stations_with_data' =
          IF counts_as_data(n) THEN stations_with_data + 1 ELSE stations_with_data
    /\ total_files' = IF counts_as_data(n) THEN total_files + n ELSE total_files
    /\ processed' = Append(processed, [id |-> stations[idx].id, files |-> n])
    /\ selected' = << >>
    /\ k' = 0
    /\ downloaded' = 0
    /\ IF idx < Len(stations)
         THEN pc' = "LISTING" /\ idx' = idx + 1
         ELSE pc' = "SUMMARIZING" /\ idx' = idx

StationDone(n) ==
    /\ stations_with_data' =
          IF counts_as_data(n) THEN stations_with_data + 1 ELSE stations_with_data
    /\ total_files' = IF counts_as_data(n) THEN total_files + n ELSE total_files
    /\ processed' = Append(processed, [id |-> stations[idx].id, files |-> n])
    /\ selected' = << >>
    /\ k' = 0
    /\ downloaded' = 0
    /\ IF idx < Len(stations)
         THEN pc' = "CLASSIFYING" /\ idx' = idx + 1
         ELSE pc' = "SUMMARIZING" /\ idx' = idx

(***************************************************************************)
(* download_station_data up to its loop: the selection finds nothing and   *)
(* the function returns 0.                                                 *)
(***************************************************************************)
ClassifyNone ==
    /\ pc = "CLASSIFYING"
    /\ SelectAssets(tier, stations[idx].assets) = << >>
    /\ StationDone(0)
    /\ UNCHANGED << world_vars, listing_vars, failure, events, summary, fs, dirs >>

(***************************************************************************)
(* download_station_data up to its loop: something is selected and the     *)
(* station directory is created.  The recent and now scripts return 0      *)
(* here when the selected entry has no href.                               *)
(***************************************************************************)
ClassifyMkdir ==
    /\ pc = "CLASSIFYING"
    /\ LET sel == SelectAssets(tier, stations[idx].assets)
       IN  /\ sel # << >>
           /\ dirs' = dirs \cup { station_dir(tier, stations[idx].id) }
           /\ IF tier # "historical" /\ sel[1].href = NoHref
                THEN StationDone(0)
                ELSE /\ pc' = "TRANSFERRING"
                     /\ selected' = sel
                     /\ k' = 1
                     /\ downloaded' = 0
                     /\ UNCHANGED << idx, total_files, stations_with_data,
                                     processed >>
    /\ UNCHANGED << world_vars, listing_vars, failure, events, summary, fs >>

(***************************************************************************)
(* station_dir.mkdir(exist_ok=True) raises (no permission, no space, a     *)
(* file of that name): the call is outside every try, so the exception     *)
(* leaves download_station_data and main.                                  *)
(***************************************************************************)
ClassifyMkdirFail ==
    /\ pc = "CLASSIFYING"
    /\ SelectAssets(tier, stations[idx].assets) # << >>
    /\ pc' = "FAILED"
    /\ failure' = "OSError"
    /\ UNCHANGED << world_vars, listing_vars, idx, selected, k, downloaded,
                    total_files, stations_with_data, processed, events,
                    summary, fs, dirs >>

\* An asset loop that adds to the counter of main itself, asset by asset.
AfterAsset_counting(d) ==
    IF k < Len(selected)
      THEN /\ k' = k + 1
           /\ downloaded' = d
           /\ total_files' = total_files + (d - downloaded)
           /\ UNCHANGED << pc, idx, selected, stations_with_data, processed >>
      ELSE StationDone(d)

(***************************************************************************)
(* The asset loop.  After the asset at k the loop goes on, or the function *)
(* returns the count d.  (The recent and now scripts have no loop: their   *)
(* selection has one entry.)                                               *)
(***************************************************************************)
AfterAsset(d) ==
    IF k < Len(selected)
      THEN /\ k' = k + 1
           /\ downloaded' = d
           /\ UNCHANGED << pc, idx, selected, total_files, stations_with_data,
                           processed >>
      ELSE StationDone(d)

CurrentPath == output_path(tier, stations[idx].id, selected[k].name)

\* A historical script without the existence check.
already_downloaded_never(t, files, path) == FALSE

\* A historical script that takes a truncated file for missing.
already_downloaded_complete(t, files, path) ==
    t = "historical" /\ exists(files, path) /\ files[path] # Truncated

\* The existence check of the historical script in all three scripts.
already_downloaded_any_tier(t, files, path) == exists(files, path)

\* The presence policy: only the historical script looks at the destination.
already_downloaded(t, files, path) == t = "historical" /\ exists(files, path)

Event(op, path, r) ==
    [op |-> op, station |-> idx, path |-> path, outcome |-> r.outcome,
     served |-> r.content,
     before |-> IF exists(fs, path) THEN fs[path] ELSE "absent"]

\* if not url: continue (historical script).
TransferNoHref ==
    /\ pc = "TRANSFERRING"
    /\ selected[k].href = NoHref
    /\ AfterAsset(downloaded)
    /\ UNCHANGED << world_vars, listing_vars, failure, events, summary, fs, dirs >>

\* A historical script that passes over an existing file without counting it.
TransferSkip_uncounted ==
    /\ pc = "TRANSFERRING"
    /\ selected[k].href # NoHref
    /\ already_downloaded(tier, fs, CurrentPath)
    /\ events' = Append(events,
          Event("SKIP", CurrentPath, [outcome |-> "skipped", content |-> "none"]))
    /\ AfterAsset(downloaded)
    /\ UNCHANGED << world_vars, listing_vars, failure, summary, fs, dirs >>

\* if output_path.exists(): downloaded += 1; continue (historical script).
TransferSkip ==
    /\ pc = "TRANSFERRING"
    /\ selected[k].href # NoHref
    /\ already_downloaded(tier, fs, CurrentPath)
    /\ events' = Append(events,
          Event("SKIP", CurrentPath, [outcome |-> "skipped", content |-> "none"]))
    /\ AfterAsset(downloaded + 1)
    /\ UNCHANGED << world_vars, listing_vars, failure, summary, fs, dirs >>

\* A download_csv without the try: a failed transfer ends the process.
TransferDownload_raise ==
    /\ pc = "TRANSFERRING"
    /\ selected[k].href # NoHref
    /\ ~already_downloaded(tier, fs, CurrentPath)
    /\ \E r \in Responses :
          /\ fs' = download_csv_fs(fs, CurrentPath, r)
          /\ events' = Append(events, Event("GET", CurrentPath, r))
          /\ IF download_csv(r)
                THEN AfterAsset(downloaded + 1) /\ failure' = failure
                ELSE /\ pc' = "FAILED"
                     /\ failure' = "RequestException"
                     /\ UNCHANGED << idx, selected, k, downloaded, total_files,
                                     stations_with_data, processed >>
    /\ UNCHANGED << world_vars, listing_vars, summary, dirs >>

\* A script that asks once more for an asset whose transfer failed.
TransferDownload_retry ==
    /\ pc = "TRANSFERRING"
    /\ selected[k].href # NoHref
    /\ ~already_downloaded(tier, fs, CurrentPath)
    /\ \E r \in Responses :
          /\ fs' = download_csv_fs(fs, CurrentPath, r)
          /\ events' = Append(events, Event("GET", CurrentPath, r))
          /\ IF ~download_csv(r)
                  /\ \A e \in DOMAIN events : events[e].path # CurrentPath
                THEN UNCHANGED << pc, idx, selected, k, downloaded, total_files,
                                  stations_with_data, processed >>
                ELSE AfterAsset(IF download_csv(r) THEN downloaded + 1
                                ELSE downloaded)
    /\ UNCHANGED << world_vars, listing_vars, failure, summary, dirs >>

\* download_csv(url, output_path) and the count of its result.
TransferDownload ==
    /\ pc = "TRANSFERRING"
    /\ selected[k].href # NoHref
    /\ ~already_downloaded(tier, fs, CurrentPath)
    /\ \E r \in Responses :
          /\ fs' = download_csv_fs(fs, CurrentPath, r)
          /\ events' = Append(events, Event("GET", CurrentPath, r))
          /\ AfterAsset(IF download_csv(r) THEN downloaded + 1 ELSE downloaded)
    /\ UNCHANGED << world_vars, listing_vars, failure, summary, dirs >>

(***************************************************************************)
(* The summary main prints after the loop.                                 *)
(***************************************************************************)
Summarize ==
    /\ pc = "SUMMARIZING"
    /\ pc' = "DONE"
    /\ summary' = [stations_processed |-> Len(stations),
                   stations_with_data |-> stations_with_data,
                   files_downloaded |-> total_files]
    /\ UNCHANGED << world_vars, listing_vars, failure, idx, selected, k,
                    downloaded, total_files, stations_with_data, processed,
                    events, fs, dirs >>

(***************************************************************************)
(* The external trigger starts the script again: a new process over the    *)
(* same output root.                                                       *)
(***************************************************************************)
Invoke ==
    /\ pc \in {"DONE", "FAILED"}
    /\ run < MaxRuns
    /\ run' = run + 1
    /\ prev' = pc
    /\ pc' = "INIT"
    /\ failure' = "none"
    /\ payload' = InitialPayload
    /\ posts' = << >>
    /\ all_features' = << >>
    /\ stations' = << >>
    /\ idx' = 0
    /\ selected' = << >>
    /\ k' = 0
    /\ downloaded' = 0
    /\ total_files' = 0
    /\ stations_with_data' = 0
    /\ processed' = << >>
    /\ events' = << >>
    /\ summary' = "none"
    /\ UNCHANGED << catalog, tier, fs, dirs, upload_vars >>

Next ==
    \/ Begin
    \/ FetchPageOk
    \/ FetchPageFail
    \/ ClassifyNone
    \/ ClassifyMkdir
    \/ ClassifyMkdirFail
    \/ TransferNoHref
    \/ TransferSkip
    \/ TransferDownload
    \/ Summarize
    \/ Invoke

Spec == Init /\ [][Next]_vars

(***************************************************************************)
(* The first invocation over an empty output root, for every catalog of    *)
(* the model: nothing exists yet, so the historical script never meets an  *)
(* existing file.                                                          *)
(***************************************************************************)
InitCatalog ==
    /\ catalog \in Catalogs
    /\ tier \in Tiers
    /\ run = 1
    /\ prev = "none"
    /\ fs = << >>
    /\ dirs = {}
    /\ UploadNotStarted
    /\ InitProcess

NextCatalog ==
    \/ Begin
    \/ FetchPageOk
    \/ FetchPageFail
    \/ ClassifyNone
    \/ ClassifyMkdir
    \/ ClassifyMkdirFail
    \/ TransferNoHref
    \/ TransferDownload
    \/ Summarize

SpecCatalog == InitCatalog /\ [][NextCatalog]_vars

(***************************************************************************)
(* The selection on its own: the catalog holds one station whose asset     *)
(* mapping is drawn from the names below, the listing has returned it and  *)
(* download_station_data is about to select.                               *)
(***************************************************************************)
NamePool ==
    { Name_ABC_hist, Name_ABC_now, Name_ABC_recent, Name_abc_h8,
      Name_old_recent, Name_dup_now, Name_dup_txt, Name_daily, Name_mixed,
      Name_upper }

\* The asset mappings of at most MaxAssets entries, every entry with an href.
AssetMappings ==
    UNION { { [i \in 1..n |-> Asset(m[i], "u")] :
                m \in { x \in [1..n -> NamePool] :
                          \A i, j \in 1..n : i # j => x[i] # x[j] } } :
            n \in 0..MaxAssets }

InitClassifier ==
    /\ \E m \in AssetMappings :
          LET st == [id |-> "ABC", assets |-> m]
          IN  /\ catalog = << [features |-> << st >>, links |-> << >>] >>
              /\ all_features = << st >>
              /\ stations = << st >>
    /\ tier \in Tiers
    /\ run = 1
    /\ prev = "none"
    /\ fs = << >>
    /\ dirs = { << "meteoswiss_data" >>, OUTPUT_DIR(tier) }
    /\ UploadNotStarted
    /\ pc = "CLASSIFYING"
    /\ failure = "none"
    /\ payload = InitialPayload
    /\ posts = << Request(InitialPayload, "ok") >>
    /\ idx = 1
    /\ selected = << >>
    /\ k = 0
    /\ downloaded = 0
    /\ total_files = 0
    /\ stations_with_data = 0
    /\ processed = << >>
    /\ events = << >>
    /\ summary = "none"

NextClassifier ==
    \/ ClassifyNone
    \/ ClassifyMkdir

SpecClassifier == InitClassifier /\ [][NextClassifier]_vars

(***************************************************************************)
(* A run over an output root that is in use: earlier runs of the three     *)
(* scripts have left files of station abc and of a station zzz that the    *)
(* catalog no longer lists, in any of the three tier directories.          *)
(***************************************************************************)
PreexistingPaths ==
    { << "meteoswiss_data", t, id, Name_abc_h8 >> :
        t \in Tiers, id \in {"abc", "zzz"} }

InitLayout ==
    /\ catalog = << [features |-> StationOrder, links |-> << >>] >>
    /\ tier \in Tiers
    /\ run = 1
    /\ prev = "none"
    /\ fs \in UNION { [d -> {"v1"}] : d \in SUBSET PreexistingPaths }
    /\ dirs = { << "meteoswiss_data" >> }
                 \cup { SubSeq(p, 1, 2) : p \in DOMAIN fs }
                 \cup { SubSeq(p, 1, 3) : p \in DOMAIN fs }
    /\ UploadNotStarted
    /\ InitProcess

NextLayout ==
    \/ Begin
    \/ FetchPageOk
    \/ FetchPageFail
    \/ ClassifyNone
    \/ ClassifyMkdir
    \/ ClassifyMkdirFail
    \/ TransferNoHref
    \/ TransferSkip
    \/ TransferDownload
    \/ Summarize

SpecLayout == InitLayout /\ [][NextLayout]_vars

(***************************************************************************)
(* The upload step.  upload_files_to_stage reads the environment, leaves   *)
(* with sys.exit(1) when a required credential or a file is missing, and   *)
(* makes its warehouse calls inside one try whose except returns 1.        *)
(***************************************************************************)
fetch_vars ==
    << catalog, tier, run, prev, pc, failure, payload, posts, all_features,
       stations, idx, selected, k, downloaded, total_files, stations_with_data,
       processed, events, summary, fs, dirs >>

\* if not all([account, user, password]): sys.exit(1)
ValidateCredentials ==
    /\ upc = "START"
    /\ IF credentials_valid(account(environ), user(environ), password(environ))
         THEN upc' = "VALIDATED" /\ exit_status' = exit_status
         ELSE upc' = "EXITED" /\ exit_status' = << 1 >>
    /\ UNCHANGED << fetch_vars, environ, calls >>

\* if not grid_file.exists(): sys.exit(1); if not forecast_file.exists(): sys.exit(1)
VerifyFiles ==
    /\ upc = "VALIDATED"
    /\ IF files_verified(fs)
         THEN upc' = "VERIFIED" /\ exit_status' = exit_status
         ELSE upc' = "EXITED" /\ exit_status' = << 1 >>
    /\ UNCHANGED << fetch_vars, environ, calls >>

\* conn = snowflake.connector.connect(...); cursor = conn.cursor()
Connect ==
    /\ upc = "VERIFIED"
    /\ \E o \in {"ok", "connect_raises", "cursor_raises"} :
          /\ calls' = calls \o
                CASE o = "connect_raises" ->
                        << Call("connect", connect_parameters(environ), "raised") >>
                  [] o = "cursor_raises" ->
                        << Call("connect", connect_parameters(environ), "ok"),
                           Call("cursor", connect_parameters(environ), "raised") >>
                  [] OTHER ->
                        << Call("connect", connect_parameters(environ), "ok"),
                           Call("cursor", connect_parameters(environ), "ok") >>
          /\ upc' = IF o = "ok" THEN "CONNECTED" ELSE "EXCEPT"
    /\ UNCHANGED << fetch_vars, environ, exit_status >>

\* cursor.execute(sql) followed by cursor.fetchone() or cursor.fetchall()
Statement(sql, fetch, next) ==
    \E o \in {"ok", "execute_raises", "fetch_raises"} :
        /\ calls' = calls \o
              CASE o = "execute_raises" -> << Call("execute", sql, "raised") >>
                [] o = "fetch_raises" ->
                      << Call("execute", sql, "ok"), Call(fetch, sql, "raised") >>
                [] OTHER ->
                      << Call("execute", sql, "ok"), Call(fetch, sql, "ok") >>
        /\ upc' = IF o = "ok" THEN next ELSE "EXCEPT"

\* A script that puts the forecast file first.
PutGrid_forecast ==
    /\ upc = "CONNECTED"
    /\ Statement(forecast_put_sql, "fetchone", "GRID_PUT")
    /\ UNCHANGED << fetch_vars, environ, exit_status >>

PutGrid ==
    /\ upc = "CONNECTED"
    /\ Statement(grid_put_sql, "fetchone", "GRID_PUT")
    /\ UNCHANGED << fetch_vars, environ, exit_status >>

PutForecast ==
    /\ upc = "GRID_PUT"
    /\ Statement(forecast_put_sql, "fetchone", "FORECAST_PUT")
    /\ UNCHANGED << fetch_vars, environ, exit_status >>

ListStage ==
    /\ upc = "FORECAST_PUT"
    /\ Statement(list_sql, "fetchall", "LISTED")
    /\ UNCHANGED << fetch_vars, environ, exit_status >>

\* cursor.close(); conn.close(); return 0
CloseAndReturn ==
    /\ upc = "LISTED"
    /\ \E o \in {"ok", "cursor_close_raises", "conn_close_raises"} :
          /\ calls' = calls \o
                CASE o = "cursor_close_raises" ->
                        << Call("cursor.close", list_sql, "raised") >>
                  [] o = "conn_close_raises" ->
                        << Call("cursor.close", list_sql, "ok"),
                           Call("conn.close", list_sql, "raised") >>
                  [] OTHER ->
                        << Call("cursor.close", list_sql, "ok"),
                           Call("conn.close", list_sql, "ok") >>
          /\ IF o = "ok"
               THEN upc' = "EXITED" /\ exit_status' = << 0 >>
               ELSE upc' = "EXCEPT" /\ exit_status' = exit_status
    /\ UNCHANGED << fetch_vars, environ >>

\* except Exception as e: ... return 1
Except ==
    /\ upc = "EXCEPT"
    /\ upc' = "EXITED"
    /\ exit_status' = << 1 >>
    /\ UNCHANGED << fetch_vars, environ, calls >>

InitUpload ==
    /\ environ \in Environments
    /\ fs \in DataFiles
    /\ upc = "START"
    /\ calls = << >>
    /\ exit_status = << >>
    /\ catalog = << [features |-> << >>, links |-> << >>] >>
    /\ tier = "historical"
    /\ run = 1
    /\ prev = "none"
    /\ dirs = { << "meteoswiss_data" >> }
    /\ InitProcess

NextUpload ==
    \/ ValidateCredentials
    \/ VerifyFiles
    \/ Connect
    \/ PutGrid
    \/ PutForecast
    \/ ListStage
    \/ CloseAndReturn
    \/ Except

SpecUpload == InitUpload /\ [][NextUpload]_vars


(***************************************************************************)
(*                              Properties                                 *)
(***************************************************************************)

\* Whether the first link of relation `next` on a page carries a cursor.
HasNextWithCursor(page) ==
    \E i \in DOMAIN page.links :
        /\ page.links[i].rel = "next"
        /\ \A j \in 1..(i - 1) : page.links[j].rel # "next"
        /\ page.links[i].cursor # NoCursor

\* The features of the first n pages of a sequence of pages, concatenated.
RECURSIVE ConcatFeatures(_, _)
ConcatFeatures(pages, n) ==
    IF n = 0 THEN << >>
    ELSE ConcatFeatures(pages, n - 1) \o pages[n].features

\* The pages the requests of this invocation were answered with.
PagesServed == [i \in DOMAIN posts |-> ServePage(posts[i].payload)]

\* fetch_all_stations has returned to main.
ListingReturned ==
    \/ pc \in {"CLASSIFYING", "TRANSFERRING", "SUMMARIZING", "DONE"}
    \/ failure = "OSError"

(***************************************************************************)
(* C1.  For every catalog (a finite sequence of pages) the walk requests   *)
(* the pages in order, one request per page; when it returns, the list is  *)
(* exactly the concatenation of the features of the pages served, the last *)
(* page served is the first one whose links hold no `next` link or whose   *)
(* first `next` link has no cursor, and no request follows it.  While it   *)
(* walks, it has collected the pages so far and has pages left to ask for, *)
(* so it ends after at most as many requests as the catalog has pages.     *)
(***************************************************************************)
C1_PaginationTermination ==
    LET n == Len(posts)
    IN  /\ \A i \in 1..n : PagesServed[i] = catalog[i]
        /\ pc = "LISTING" =>
              /\ n < Len(catalog)
              /\ all_features = ConcatFeatures(PagesServed, n)
              /\ \A i \in 1..n : HasNextWithCursor(PagesServed[i])
        /\ ListingReturned =>
              /\ n >= 1
              /\ stations = ConcatFeatures(PagesServed, n)
              /\ ~HasNextWithCursor(PagesServed[n])
              /\ \A i \in 1..(n - 1) : HasNextWithCursor(PagesServed[i])

\* A walk over two non-empty pages that ended on a `next` link without cursor.
C1_Witness ==
    /\ ListingReturned
    /\ Len(posts) = 2
    /\ catalog[1].features # << >>
    /\ catalog[2].features # << >>
    /\ \E i \in DOMAIN catalog[2].links : catalog[2].links[i].rel = "next"
    /\ Len(stations) = Len(catalog[1].features) + Len(catalog[2].features)

\* s ends with suf; s holds x somewhere.
IsSuffixOf(suf, s) ==
    /\ Len(suf) <= Len(s)
    /\ \A j \in 1..Len(suf) : s[Len(s) - Len(suf) + j] = suf[j]

IsInfixOf(x, s) ==
    \E i \in 0..(Len(s) - Len(x)) : \A j \in 1..Len(x) : s[i + j] = x[j]

\* The name condition of each tier, as the documentation of the scripts words it.
TierName(t, name) ==
    CASE t = "historical" ->
            IsInfixOf(HistoricalInfix, name) /\ IsSuffixOf(CsvExt, name)
      [] t = "recent" -> IsSuffixOf(RecentSuffix, name)
      [] t = "now" -> IsSuffixOf(NowSuffix, name)

\* The number of pages the walk over catalog c asks for.
WalkLength(c) ==
    CHOOSE n \in 1..Len(c) :
        /\ ~HasNextWithCursor(c[n])
        /\ \A i \in 1..(n - 1) : HasNextWithCursor(c[i])

\* The stations the walk over the catalog returns.
CatalogStations == ConcatFeatures(catalog, WalkLength(catalog))

\* The destination of every historical asset of the catalog that has an href.
HistoricalPaths ==
    UNION { { output_path("historical", CatalogStations[i].id,
                          CatalogStations[i].assets[j].name) :
                j \in { n \in DOMAIN CatalogStations[i].assets :
                          /\ CatalogStations[i].assets[n].href # NoHref
                          /\ TierName("historical",
                                      CatalogStations[i].assets[n].name) } } :
            i \in DOMAIN CatalogStations }

\* Every historical asset of the catalog that has an href has its local file.
Mirrored == HistoricalPaths \subseteq DOMAIN fs

\* The positions of the asset GETs in a sequence of events.
Gets(ev) == { i \in DOMAIN ev : ev[i].op = "GET" }

\* The positions of the assets that count: transferred, or skipped as present.
Counted(ev) == { i \in DOMAIN ev : ev[i].outcome \in {"ok", "skipped"} }


(***************************************************************************)
(* C2, as amended.  In a historical run over an output root that holds a   *)
(* file for every historical asset of the catalog that has an href (what a *)
(* first run without a failed transfer leaves), no step issues an asset    *)
(* GET and no step changes a file: the run only requests the catalog       *)
(* pages, and the artifact set after it is the one before it.              *)
(***************************************************************************)
C2_SecondRunIdempotent ==
    [][ tier = "historical" =>
            \/ /\ fs' = fs
               /\ Cardinality(Gets(events')) <= Cardinality(Gets(events))
            \/ ~Mirrored ]_vars

\* A second run after a complete first one: every asset skipped, none fetched.
C2_Witness ==
    /\ tier = "historical"
    /\ run = 2
    /\ prev = "DONE"
    /\ pc = "DONE"
    /\ Mirrored
    /\ Len(posts) >= 1
    /\ Len(events) >= 3
    /\ Gets(events) = {}

(***************************************************************************)
(* C2 as stated, with the network calls read as the asset GETs alone: the  *)
(* second of two historical runs that both ran to the end issues none.     *)
(* (The catalog POSTs of the second run come on top of these.)             *)
(***************************************************************************)
C2_Original ==
    (tier = "historical" /\ run = 2 /\ prev = "DONE") => Gets(events) = {}

(***************************************************************************)
(* C3.  In the recent and the now tier, the destination of every transfer  *)
(* that succeeded in this run holds the body served in this run, whatever  *)
(* an earlier run left there.                                              *)
(***************************************************************************)
C3_Freshness ==
    tier \in {"recent", "now"} =>
        \A i \in DOMAIN events :
            (events[i].op = "GET" /\ events[i].outcome = "ok") =>
                /\ exists(fs, events[i].path)
                /\ fs[events[i].path] = events[i].served

\* A second recent run was served v2 where the first run had left v1.
C3_Witness ==
    /\ tier = "recent"
    /\ run = 2
    /\ \E i \in DOMAIN events :
          /\ events[i].op = "GET"
          /\ events[i].before = "v1"
          /\ events[i].served = "v2"
          /\ fs[events[i].path] = "v2"

\* A step in which an asset GET fails.
FailedTransferStep ==
    /\ Len(events') = Len(events) + 1
    /\ events'[Len(events')].op = "GET"
    /\ events'[Len(events')].outcome # "ok"

(***************************************************************************)
(* C4.  A transfer that fails is the failure of that asset only.  The step *)
(* in which a GET fails leaves the process running and moves on to the     *)
(* next asset of the station, else to the next station, else to the        *)
(* summary, without touching the counters of the assets before it.  And a  *)
(* run that reaches its end has finished every station of the catalog in   *)
(* order, has handled every selected asset that has an href, and reports   *)
(* as files_downloaded the number of assets transferred or skipped, the    *)
(* failed ones left out.                                                   *)
(***************************************************************************)
C4_Isolation ==
    /\ [][ FailedTransferStep =>
            /\ failure' = "none"
            /\ total_files' >= total_files
            /\ IF k < Len(selected)
                 THEN pc' = "TRANSFERRING" /\ idx' = idx /\ k' = k + 1
                          /\ downloaded' = downloaded
                 ELSE IF idx < Len(stations)
                        THEN pc' = "CLASSIFYING" /\ idx' = idx + 1
                        ELSE pc' = "SUMMARIZING" ]_vars
    /\ [](pc = "DONE" =>
            /\ Len(processed) = Len(stations)
            /\ \A i \in DOMAIN stations : processed[i].id = stations[i].id
            /\ \A i \in DOMAIN stations :
                 LET sel == SelectAssets(tier, stations[i].assets)
                 IN  \A j \in DOMAIN sel :
                        (sel[j].href # NoHref) =>
                            \E e \in DOMAIN events :
                                /\ events[e].station = i
                                /\ events[e].path =
                                      output_path(tier, stations[i].id, sel[j].name)
            /\ summary.stations_processed = Len(stations)
            /\ summary.files_downloaded = Cardinality(Counted(events)))

\* The first transfer failed; a later asset and a later station succeeded.
C4_Witness ==
    /\ pc = "DONE"
    /\ Len(events) >= 3
    /\ events[1].outcome = "neterr"
    /\ \E i, j \in DOMAIN events :
          /\ events[i].station = events[1].station
          /\ events[i].outcome = "ok"
          /\ events[j].station > events[1].station
          /\ events[j].outcome = "ok"
    /\ summary.files_downloaded = 2


(***************************************************************************)
(* C5.  Once a catalog request has failed, on the first page or a later    *)
(* one, the run is in FAILED with the catalog failure: no list of stations *)
(* was returned, no station was classified or finished, no asset was       *)
(* requested or skipped, no station directory and no file was created and  *)
(* no summary was produced, whatever the earlier pages held.               *)
(***************************************************************************)
C5_CatalogFailureAborts ==
    (\E i \in DOMAIN posts : posts[i].status = "error") =>
        /\ pc = "FAILED"
        /\ failure = "CatalogUnavailable"
        /\ posts[Len(posts)].status = "error"
        /\ stations = << >>
        /\ idx = 0
        /\ selected = << >>
        /\ processed = << >>
        /\ events = << >>
        /\ summary = "none"
        /\ fs = << >>
        /\ dirs \subseteq { << "meteoswiss_data" >>, OUTPUT_DIR(tier) }

\* The second request failed after a first page that held stations.
C5_Witness ==
    /\ Len(posts) = 2
    /\ posts[1].status = "ok"
    /\ posts[2].status = "error"
    /\ all_features # << >>
    /\ pc = "FAILED"


\* The event a step adds, when it adds one.
AddsEvent == Len(events') = Len(events) + 1

NewEvent == events'[Len(events')]

(***************************************************************************)
(* C6.  In the historical tier no step changes or removes a file that      *)
(* exists, and no GET is issued for a destination that exists; the step    *)
(* taken at a selected asset (with an href) whose destination exists       *)
(* reports it as skipped, counts it and leaves the file system as it is.   *)
(* Only the existence of the path is looked at, whatever the file holds,   *)
(* so this stays true over all runs.                                       *)
(***************************************************************************)
C6_SkipIfExists ==
    [][ tier = "historical" =>
            /\ \A p \in DOMAIN fs : p \in DOMAIN fs' /\ fs'[p] = fs[p]
            /\ (AddsEvent /\ NewEvent.op = "GET") => NewEvent.path \notin DOMAIN fs
            /\ (/\ pc = "TRANSFERRING"
                /\ selected[k].href # NoHref
                /\ CurrentPath \in DOMAIN fs) =>
                    /\ AddsEvent
                    /\ NewEvent.op = "SKIP"
                    /\ NewEvent.outcome = "skipped"
                    /\ NewEvent.path = CurrentPath
                    /\ fs' = fs
                    /\ (k < Len(selected) => downloaded' = downloaded + 1) ]_vars

\* A later run skipped a file that an earlier run had left truncated.
C6_Witness ==
    /\ tier = "historical"
    /\ run >= 2
    /\ \E i \in DOMAIN events :
          /\ events[i].op = "SKIP"
          /\ events[i].before = Truncated
          /\ fs[events[i].path] = Truncated

(***************************************************************************)
(* C7.  In the recent and the now tier the step taken at the selected      *)
(* asset is always a GET for its destination, whether or not a file is     *)
(* there, and when the transfer succeeds the destination holds the body    *)
(* served.  A run that reaches its end has issued that GET for every       *)
(* station whose selected asset has an href.                               *)
(***************************************************************************)
C7_AlwaysOverwrite ==
    /\ [][ (tier \in {"recent", "now"} /\ pc = "TRANSFERRING") =>
            /\ AddsEvent
            /\ NewEvent.op = "GET"
            /\ NewEvent.path = CurrentPath
            /\ NewEvent.before =
                  (IF CurrentPath \in DOMAIN fs THEN fs[CurrentPath] ELSE "absent")
            /\ NewEvent.outcome = "ok" =>
                  /\ CurrentPath \in DOMAIN fs'
                  /\ fs'[CurrentPath] = NewEvent.served ]_vars
    /\ []((tier \in {"recent", "now"} /\ pc = "DONE") =>
            \A i \in DOMAIN stations :
                \A j \in DOMAIN stations[i].assets :
                    (/\ TierName(tier, stations[i].assets[j].name)
                     /\ \A n \in 1..(j - 1) :
                           ~TierName(tier, stations[i].assets[n].name)
                     /\ stations[i].assets[j].href # NoHref) =>
                        \E e \in Gets(events) :
                            /\ events[e].station = i
                            /\ events[e].path =
                                  output_path(tier, stations[i].id,
                                              stations[i].assets[j].name))

\* A now run fetched and replaced a file that was already there.
C7_Witness ==
    /\ tier = "now"
    /\ run >= 2
    /\ \E i \in DOMAIN events :
          /\ events[i].op = "GET"
          /\ events[i].outcome = "ok"
          /\ events[i].before \in Versions
          /\ events[i].before # events[i].served
          /\ fs[events[i].path] = events[i].served

\* At least one asset of station i was transferred or skipped as present.
HasData(i) == \E e \in Counted(events) : events[e].station = i

(***************************************************************************)
(* C8.  After the station loop, stations_with_data is the number of        *)
(* stations for which at least one asset was transferred or (historical)   *)
(* skipped as present, and a station is counted exactly when that is so.   *)
(* A station with an empty asset mapping or without an asset of the tier   *)
(* returned zero, caused no transfer and is not counted.                   *)
(***************************************************************************)
C8_StationsWithData ==
    pc \in {"SUMMARIZING", "DONE"} =>
        /\ Len(processed) = Len(stations)
        /\ stations_with_data = Cardinality({ i \in DOMAIN stations : HasData(i) })
        /\ pc = "DONE" => summary.stations_with_data = stations_with_data
        /\ \A i \in DOMAIN stations :
              /\ processed[i].files > 0 <=> HasData(i)
              /\ (\A j \in DOMAIN stations[i].assets :
                     ~TierName(tier, stations[i].assets[j].name)) =>
                    /\ processed[i].files = 0
                    /\ ~HasData(i)
                    /\ \A e \in DOMAIN events : events[e].station # i

\* A run over a station with data, one whose transfers all failed, one with an
\* empty mapping and one without an asset of the tier: one station counted.
C8_Witness ==
    /\ pc = "DONE"
    /\ Len(stations) = 4
    /\ stations_with_data = 1
    /\ \E i \in DOMAIN stations : stations[i].assets = << >>
    /\ \E i \in DOMAIN stations :
          /\ ~HasData(i)
          /\ \E e \in DOMAIN events : events[e].station = i

(***************************************************************************)
(* C9 as stated.  Once the listing has succeeded the run is never FAILED:  *)
(* the only failure that ends a process is the catalog failure.            *)
(***************************************************************************)
C9_OnlyCatalogFailureEndsRun ==
    pc = "FAILED" => (failure = "CatalogUnavailable" /\ ~ListingReturned)


\* The names of a sequence of assets.
Names(assets) == { assets[i].name : i \in DOMAIN assets }

\* The selection of the station at idx has been made.
Selected == pc # "CLASSIFYING"

\* The positions of the assets of the station whose name is of tier t.
TierHits(t) ==
    { i \in DOMAIN stations[1].assets : TierName(t, stations[1].assets[i].name) }

\* The station of the documentation: one historical, one now, one recent asset.
ExampleStation ==
    Names(stations[1].assets) = { Name_ABC_hist, Name_ABC_now, Name_ABC_recent }

(***************************************************************************)
(* C10, as amended.  The historical selection holds exactly the assets     *)
(* whose name contains '_t_historical_' and ends in '.csv', in the order   *)
(* of the mapping.  The recent (now) selection holds the first asset of    *)
(* the mapping whose name ends in '_t_recent.csv' ('_t_now.csv') and no    *)
(* other, and is empty when there is none.  For a station holding one      *)
(* historical, one now and one recent asset each tier selects its own      *)
(* asset only, and no asset is selected by two tiers.                      *)
(***************************************************************************)
C10_Selection ==
    Selected =>
        LET assets == stations[1].assets
        IN  /\ tier = "historical" =>
                  selected = SelectSeq(assets, LAMBDA a : TierName("historical", a.name))
            /\ tier \in {"recent", "now"} =>
                  IF TierHits(tier) = {}
                    THEN selected = << >>
                    ELSE /\ Len(selected) = 1
                         /\ \E i \in TierHits(tier) :
                              /\ selected[1] = assets[i]
                              /\ \A j \in TierHits(tier) : i <= j
            /\ ExampleStation =>
                  /\ Names(selected) =
                        { CASE tier = "historical" -> Name_ABC_hist
                            [] tier = "recent" -> Name_ABC_recent
                            [] tier = "now" -> Name_ABC_now }
                  /\ \A t \in Tiers \ {tier} :
                        Names(SelectAssets(t, assets)) \cap Names(selected) = {}

\* The recent selection over a mapping with two recent assets took the first.
C10_Witness ==
    /\ Selected
    /\ tier = "recent"
    /\ Cardinality(TierHits("recent")) = 2
    /\ Len(selected) = 1
    /\ Len(stations[1].assets) = 3
    /\ selected[1] = stations[1].assets[2]

(***************************************************************************)
(* C10 as stated.  The selection of a tier holds exactly the assets whose  *)
(* name satisfies the condition of the tier.                               *)
(***************************************************************************)
C10_Original ==
    Selected =>
        Names(selected) =
            { n \in Names(stations[1].assets) : TierName(tier, n) }

\* The events of this run that belong to the station at position i.
EventsOf(i) == { e \in DOMAIN events : events[e].station = i }

\* The positions in an asset mapping of the entries with a name of tier t.
HitsIn(t, assets) == { j \in DOMAIN assets : TierName(t, assets[j].name) }

(***************************************************************************)
(* C11.  In a historical run every asset of a finished station whose name  *)
(* matches (and that has an href) was processed, each of them once: the    *)
(* station has one event per such asset, at the destination of that asset. *)
(* In a recent or now run a station has at most one event, a GET for the   *)
(* first matching asset in the order of the mapping; a file changes only   *)
(* in a step that issues a GET, so a station sees at most one GET and at   *)
(* most one write.                                                         *)
(***************************************************************************)
C11_AssetsPerStation ==
    /\ [][ fs' # fs => (AddsEvent /\ NewEvent.op = "GET") ]_vars
    /\ [](tier = "historical" =>
            \A i \in DOMAIN processed :
                LET assets == stations[i].assets
                    hits == { j \in HitsIn("historical", assets) :
                                assets[j].href # NoHref }
                IN  /\ Cardinality(EventsOf(i)) = Cardinality(hits)
                    /\ \A j \in hits :
                          \E e \in EventsOf(i) :
                              events[e].path =
                                  output_path(tier, stations[i].id, assets[j].name))
    /\ [](tier \in {"recent", "now"} =>
            \A i \in DOMAIN stations :
                LET assets == stations[i].assets
                IN  /\ Cardinality(EventsOf(i)) <= 1
                    /\ \A e \in EventsOf(i) :
                          /\ events[e].op = "GET"
                          /\ \E j \in HitsIn(tier, assets) :
                                /\ \A n \in HitsIn(tier, assets) : j <= n
                                /\ events[e].path =
                                      output_path(tier, stations[i].id, assets[j].name))

\* A recent run ended; a station with two recent assets got one GET, for the first.
C11_Witness ==
    /\ tier = "recent"
    /\ pc = "DONE"
    /\ \E i \in DOMAIN stations :
          /\ Cardinality(HitsIn("recent", stations[i].assets)) = 2
          /\ Cardinality(EventsOf(i)) = 1
          /\ \E e \in EventsOf(i) :
                /\ events[e].outcome = "ok"
                /\ events[e].path =
                      output_path("recent", stations[i].id, Name_dup_recent)

\* The position of a state of the process in the order of a run.
PhaseRank(p) ==
    CASE p = "INIT" -> 0
      [] p = "LISTING" -> 1
      [] p \in {"CLASSIFYING", "TRANSFERRING"} -> 2
      [] p = "SUMMARIZING" -> 3
      [] p \in {"DONE", "FAILED"} -> 4

(***************************************************************************)
(* C12.  Within one run the process never goes back in the order INIT,     *)
(* LISTING, station loop, SUMMARIZING, DONE.  LISTING is entered from INIT *)
(* only; the loop is entered from LISTING at the first station, goes from  *)
(* CLASSIFYING to TRANSFERRING within a station and on to the next station *)
(* in order; SUMMARIZING is entered from the last station (or from LISTING *)
(* when there is none) and DONE from SUMMARIZING.  A catalog request is    *)
(* issued in LISTING only, before any station was classified, any station  *)
(* directory made and any asset handled; there is no summary before DONE,  *)
(* and the one produced there comes after the last station was processed.  *)
(***************************************************************************)
C12_PhaseOrder ==
    [][ run' = run =>
          /\ PhaseRank(pc') >= PhaseRank(pc)
          /\ pc' = "LISTING" => pc \in {"INIT", "LISTING"}
          /\ pc' = "CLASSIFYING" =>
                \/ pc = "LISTING" /\ idx' = 1 /\ processed' = << >>
                \/ /\ pc \in {"CLASSIFYING", "TRANSFERRING"}
                   /\ idx' = idx + 1
                   /\ Len(processed') = idx
          /\ pc' = "TRANSFERRING" =>
                pc \in {"CLASSIFYING", "TRANSFERRING"} /\ idx' = idx
          /\ pc' = "SUMMARIZING" =>
                \/ pc = "LISTING" /\ stations' = << >>
                \/ /\ pc \in {"CLASSIFYING", "TRANSFERRING"}
                   /\ idx = Len(stations)
                   /\ Len(processed') = Len(stations)
          /\ pc' = "DONE" => pc = "SUMMARIZING"
          /\ posts' # posts =>
                /\ pc = "LISTING"
                /\ idx = 0
                /\ stations = << >>
                /\ events' = << >>
                /\ processed' = << >>
                /\ fs' = fs
                /\ dirs' = dirs
          /\ (events' # events \/ processed' # processed
                  \/ (idx' > 1 /\ idx' # idx)) =>
                /\ PhaseRank(pc) = 2
                /\ posts' = posts
                /\ posts # << >>
          /\ pc' # "DONE" => summary' = "none"
          /\ pc' = "DONE" =>
                /\ summary'.stations_processed = Len(processed)
                /\ Len(processed) = Len(stations)
                /\ posts' = posts
                /\ events' = events ]_vars

\* A run over two pages and four stations reached its end through every state.
C12_Witness ==
    /\ pc = "DONE"
    /\ Len(posts) = 2
    /\ Len(processed) = 4
    /\ Len(events) >= 2
    /\ summary.stations_processed = 4

(***************************************************************************)
(* C13.  One thing happens at a time, in order.  A step handles at most    *)
(* one asset, and the asset it handles belongs to the station at idx: all  *)
(* stations before it are finished, in catalog order, and no later station *)
(* has been touched.  So the events of a run are ordered by station, a     *)
(* station is finished only after the last of its assets has its outcome,  *)
(* and the next station starts after that.  The counters of the summary    *)
(* change only in the step of main that takes the count of a finished      *)
(* station, by that count.                                                 *)
(***************************************************************************)
C13_Sequential ==
    /\ [][ run' = run =>
            /\ events' # events =>
                  /\ AddsEvent
                  /\ SubSeq(events', 1, Len(events)) = events
                  /\ NewEvent.station = idx
                  /\ NewEvent.outcome \in {"ok", "neterr", "writeerr", "skipped"}
                  /\ NewEvent.path = output_path(tier, stations[idx].id, selected[k].name)
                  /\ Len(processed) = idx - 1
            /\ processed' # processed =>
                  /\ Len(processed') = Len(processed) + 1
                  /\ SubSeq(processed', 1, Len(processed)) = processed
                  /\ processed'[Len(processed')].id = stations[idx].id
                  /\ Len(processed') = idx
                  /\ pc = "TRANSFERRING" => k = Len(selected)
            /\ (total_files' # total_files
                    \/ stations_with_data' # stations_with_data) =>
                  /\ pc \in {"CLASSIFYING", "TRANSFERRING"}
                  /\ Len(processed') = Len(processed) + 1
                  /\ processed'[Len(processed')].files > 0
                  /\ total_files' = total_files + processed'[Len(processed')].files
                  /\ stations_with_data' = stations_with_data + 1 ]_vars
    /\ [](/\ \A i \in DOMAIN processed : processed[i].id = stations[i].id
          /\ \A e1, e2 \in DOMAIN events :
                e1 < e2 => events[e1].station <= events[e2].station
          /\ \A e \in DOMAIN events :
                events[e].station \in 1..(Len(processed) + 1))

\* A historical run ended with two assets of one station and one of a later one.
C13_Witness ==
    /\ pc = "DONE"
    /\ tier = "historical"
    /\ Len(events) >= 3
    /\ events[1].station = events[2].station
    /\ events[1].path # events[2].path
    /\ events[2].station < events[3].station
    /\ total_files >= 2

\* The credentials the upload step cannot do without, and the others.
RequiredCredentials ==
    { "SNOWFLAKE_ACCOUNT", "SNOWFLAKE_USER", "SNOWFLAKE_PASSWORD" }

\* A credential is given: the variable is set to something.
Given(n) == n \in DOMAIN environ /\ environ[n] # ""

\* The positions of the connections opened or tried and of the PUTs executed.
Connections == { i \in DOMAIN calls : calls[i].op = "connect" }

Puts ==
    { i \in DOMAIN calls : calls[i].op = "execute" /\ calls[i].arg.command = "PUT" }

(***************************************************************************)
(* C14, as amended.  Account, user and password are validated together     *)
(* before any warehouse interaction: when one of them is not set (or set   *)
(* to the empty string) the step ends with exit status 1 and has made no   *)
(* call at all, so no connection is opened and no PUT executed.  Role,     *)
(* warehouse, database and schema are not validated: the connection is     *)
(* opened with the value of the variable when it is set, and with          *)
(* SYSADMIN, METEOSWISS_WH, METEOSWISS and BRONZE when it is not.          *)
(***************************************************************************)
C14_CredentialsValidated ==
    /\ calls # << >> => \A n \in RequiredCredentials : Given(n)
    /\ ((\E n \in RequiredCredentials : ~Given(n)) /\ upc # "START") =>
          /\ upc = "EXITED"
          /\ exit_status = << 1 >>
          /\ Connections = {}
          /\ Puts = {}
    /\ \A i \in Connections :
          LET p == calls[i].arg
              given(n, d) == IF n \in DOMAIN environ THEN environ[n] ELSE d
          IN  /\ p.account = environ["SNOWFLAKE_ACCOUNT"]
              /\ p.user = environ["SNOWFLAKE_USER"]
              /\ p.password = environ["SNOWFLAKE_PASSWORD"]
              /\ p.role = given("SNOWFLAKE_ROLE", "SYSADMIN")
              /\ p.warehouse = given("SNOWFLAKE_WAREHOUSE", "METEOSWISS_WH")
              /\ p.database = given("SNOWFLAKE_DATABASE", "METEOSWISS")
              /\ p.schema = given("SNOWFLAKE_SCHEMA", "BRONZE")

\* The password alone is not set, both files are there: exit 1 without a call.
C14_Witness ==
    /\ DOMAIN environ = CredentialNames \ { "SNOWFLAKE_PASSWORD" }
    /\ \A n \in DOMAIN environ : environ[n] = "x"
    /\ files_verified(fs)
    /\ upc = "EXITED"
    /\ exit_status = << 1 >>
    /\ calls = << >>

(***************************************************************************)
(* C14 as stated.  When any of the seven credentials is absent from the    *)
(* environment, no connection is opened and no PUT is executed.            *)
(***************************************************************************)
C14_Original ==
    (\E n \in CredentialNames : n \notin DOMAIN environ) =>
        (Connections = {} /\ Puts = {})

\* The page of the catalog a request asks for.
PageAsked(i) ==
    IF posts[i].payload.cursor = NoCursor THEN 1 ELSE posts[i].payload.cursor

(***************************************************************************)
(* C15.  Nothing is asked for twice in a run.  No two catalog requests of  *)
(* a run ask for the same page, a request that failed is the last one, and *)
(* once the listing has returned every page of the walk was requested      *)
(* exactly once.  No two events of a run are for the same destination, so  *)
(* an asset gets at most one GET; after a failed GET the destination stays *)
(* for the rest of the run as that GET left it.                            *)
(***************************************************************************)
C15_NoRetry ==
    /\ \A i, j \in DOMAIN posts : i # j => PageAsked(i) # PageAsked(j)
    /\ \A i \in DOMAIN posts : posts[i].status = "error" => i = Len(posts)
    /\ ListingReturned =>
          \A p \in 1..WalkLength(catalog) :
              Cardinality({ i \in DOMAIN posts : PageAsked(i) = p }) = 1
    /\ \A e1, e2 \in DOMAIN events : e1 # e2 => events[e1].path # events[e2].path
    /\ \A e \in Gets(events) :
          /\ events[e].outcome = "neterr" =>
                IF events[e].before = "absent"
                  THEN events[e].path \notin DOMAIN fs
                  ELSE fs[events[e].path] = events[e].before
          /\ events[e].outcome = "writeerr" => fs[events[e].path] = Truncated

\* A run of two requests ended; its first GET failed and others followed.
C15_Witness ==
    /\ pc = "DONE"
    /\ Len(posts) = 2
    /\ Len(events) >= 3
    /\ events[1].op = "GET"
    /\ events[1].outcome = "neterr"
    /\ events[1].path \notin DOMAIN fs

\* The cursor in the body of the first link of relation `next` of a page
\* (NoCursor when the page has no such link).
NextCursorOf(page) ==
    IF \E j \in DOMAIN page.links : page.links[j].rel = "next"
      THEN page.links[CHOOSE j \in DOMAIN page.links :
                          /\ page.links[j].rel = "next"
                          /\ \A n \in 1..(j - 1) : page.links[n].rel # "next"].cursor
      ELSE NoCursor

(***************************************************************************)
(* C16.  The first request of a run carries the collection, limit 100 and  *)
(* no cursor.  Every later request carries the cursor of the `next` link   *)
(* of the page the request before it was answered with, and a cursor it    *)
(* is; its collections and limit are those of the first request.           *)
(***************************************************************************)
C16_CursorCarried ==
    /\ posts # << >> =>
          posts[1].payload =
              [collections |-> << "ch.meteoschweiz.ogd-smn" >>, limit |-> 100,
               cursor |-> NoCursor]
    /\ \A i \in 1..(Len(posts) - 1) :
          /\ posts[i + 1].payload.cursor = NextCursorOf(catalog[PageAsked(i)])
          /\ posts[i + 1].payload.cursor # NoCursor
          /\ posts[i + 1].payload.collections = posts[1].payload.collections
          /\ posts[i + 1].payload.limit = posts[1].payload.limit

\* The second request of a walk went out with the cursor of the first page.
C16_Witness ==
    /\ Len(posts) = 2
    /\ posts[1].payload.cursor = NoCursor
    /\ posts[2].payload.cursor = 2
    /\ posts[2].status = "ok"
    /\ Len(catalog[1].links) = 3

\* Path p is not in the two file systems with the same content.
Changed(files, files2, p) ==
    \/ p \notin DOMAIN files
    \/ p \notin DOMAIN files2
    \/ files[p] # files2[p]

(***************************************************************************)
(* C17.  A step creates or changes a file only while it transfers, and     *)
(* then only the file <output root>/<tier>/<station id>/<asset name> of    *)
(* the station at idx and of an asset of that station with a name of the   *)
(* tier; no step removes a file, and a directory a step makes is the one   *)
(* of the tier or of the station at idx.  So whatever stations of other    *)
(* ids and the other tiers have under the output root stays as it is, and  *)
(* (the ids of the catalog being distinct) the destinations of two         *)
(* stations differ.                                                        *)
(***************************************************************************)
C17_WritesInsideStationDir ==
    /\ [][ /\ \A p \in DOMAIN fs \cup DOMAIN fs' :
                Changed(fs, fs', p) =>
                    /\ p \in DOMAIN fs'
                    /\ pc = "TRANSFERRING"
                    /\ Len(p) = 4
                    /\ p[1] = "meteoswiss_data"
                    /\ p[2] = tier
                    /\ p[3] = stations[idx].id
                    /\ \E j \in HitsIn(tier, stations[idx].assets) :
                          p[4] = stations[idx].assets[j].name
           /\ \A d \in dirs' \ dirs :
                \/ pc = "INIT" /\ d \in { << "meteoswiss_data" >>,
                                          << "meteoswiss_data", tier >> }
                \/ /\ pc = "CLASSIFYING"
                   /\ d = << "meteoswiss_data", tier, stations[idx].id >> ]_vars
    /\ [](\A e1, e2 \in DOMAIN events :
            events[e1].station # events[e2].station =>
                /\ events[e1].path # events[e2].path
                /\ SubSeq(events[e1].path, 1, 3) # SubSeq(events[e2].path, 1, 3))

\* A recent run wrote the files of abc and dup next to what was there before.
C17_Witness ==
    /\ tier = "recent"
    /\ pc = "DONE"
    /\ PreexistingPaths \subseteq DOMAIN fs
    /\ \A p \in PreexistingPaths : fs[p] = "v1"
    /\ << "meteoswiss_data", "recent", "abc", Name_abc_recent >> \in DOMAIN fs
    /\ << "meteoswiss_data", "recent", "dup", Name_dup_recent >> \in DOMAIN fs
    /\ fs[<< "meteoswiss_data", "recent", "abc", Name_abc_recent >>] = "v2"

\* The statements executed on the warehouse, in order.
Executed == SelectSeq(calls, LAMBDA c : c.op = "execute")

\* Statement c puts the file of that name; statement c lists the stage.
IsPutOf(c, name) == c.arg.command = "PUT" /\ c.arg.file[Len(c.arg.file)] = name

IsList(c) == c.arg.command = "LIST"

(***************************************************************************)
(* C18.  The upload step makes a warehouse call only when both the grid    *)
(* file and the forecast file exist; when one is missing it ends with exit *)
(* status 1 and without a call.  The connection comes first; the           *)
(* statements executed are, in this order, the PUT of the grid file, the   *)
(* PUT of the forecast file and the LIST of the stage.  A call that raises *)
(* is the last call: nothing is executed after it and the exit status is   *)
(* 1.  The exit status is 0 only when the connection and all three         *)
(* statements succeeded and no call raised.                                *)
(***************************************************************************)
C18_UploadOrder ==
    /\ calls # << >> =>
          /\ << "meteoswiss_data", "icon_ch1_grid.csv" >> \in DOMAIN fs
          /\ << "meteoswiss_data", "icon_ch1_forecast_aswdir_s.csv" >> \in DOMAIN fs
          /\ calls[1].op = "connect"
    /\ (/\ upc \notin {"START", "VALIDATED"}
        /\ \/ << "meteoswiss_data", "icon_ch1_grid.csv" >> \notin DOMAIN fs
           \/ << "meteoswiss_data", "icon_ch1_forecast_aswdir_s.csv" >> \notin DOMAIN fs) =>
          /\ upc = "EXITED"
          /\ exit_status = << 1 >>
          /\ calls = << >>
    /\ Len(Executed) <= 3
    /\ Len(Executed) >= 1 => IsPutOf(Executed[1], "icon_ch1_grid.csv")
    /\ Len(Executed) >= 2 =>
          /\ IsPutOf(Executed[2], "icon_ch1_forecast_aswdir_s.csv")
          /\ Executed[1].status = "ok"
    /\ Len(Executed) >= 3 =>
          /\ IsList(Executed[3])
          /\ Executed[2].status = "ok"
    /\ \A i \in DOMAIN calls :
          calls[i].status = "raised" =>
              /\ i = Len(calls)
              /\ upc \in {"EXCEPT", "EXITED"}
              /\ upc = "EXITED" => exit_status = << 1 >>
    /\ upc # "EXITED" <=> exit_status = << >>
    /\ exit_status = << 0 >> =>
          /\ \A i \in DOMAIN calls : calls[i].status = "ok"
          /\ calls[1].op = "connect"
          /\ Len(Executed) = 3
    /\ (exit_status = << 1 >> /\ calls # << >>) =>
          calls[Len(calls)].status = "raised"

\* The PUT of the forecast file raised after the grid file was put: exit
\* status 1 and the stage was not listed.
C18_Witness ==
    /\ upc = "EXITED"
    /\ exit_status = << 1 >>
    /\ Len(Executed) = 2
    /\ Executed[1].status = "ok"
    /\ Executed[2].status = "raised"
    /\ IsPutOf(Executed[2], "icon_ch1_forecast_aswdir_s.csv")

(***************************************************************************)
(* C19.  The step of a GET that fails on the network (connection error,    *)
(* timeout, error status) changes no file: a destination that did not      *)
(* exist does not exist after it and one that existed holds what it held,  *)
(* and the asset is not counted.  Until the run ends the destination stays *)
(* that way.                                                               *)
(***************************************************************************)
C19_FailedTransferLeavesPath ==
    /\ [][ (AddsEvent /\ NewEvent.op = "GET" /\ NewEvent.outcome = "neterr") =>
              /\ fs' = fs
              /\ NewEvent.path \in DOMAIN fs' <=> NewEvent.before # "absent"
              /\ NewEvent.path \in DOMAIN fs' => fs'[NewEvent.path] = NewEvent.before
              /\ pc' = "TRANSFERRING" => downloaded' = downloaded
              /\ Len(processed') > Len(processed) =>
                    processed'[Len(processed')].files = downloaded ]_vars
    /\ [](\A e \in Gets(events) :
            events[e].outcome = "neterr" =>
                IF events[e].before = "absent"
                  THEN events[e].path \notin DOMAIN fs
                  ELSE /\ events[e].path \in DOMAIN fs
                       /\ fs[events[e].path] = events[e].before)

\* The GET of a recent run failed on a file an earlier run had written: the
\* file still holds what that run wrote.
C19_Witness ==
    /\ tier = "recent"
    /\ run = 2
    /\ \E e \in Gets(events) :
          /\ events[e].outcome = "neterr"
          /\ events[e].before = "v1"
          /\ fs[events[e].path] = "v1"

\* The sum of the counts of the first n finished stations.
RECURSIVE SumFiles(_, _)
SumFiles(done, n) ==
    IF n = 0 THEN 0 ELSE SumFiles(done, n - 1) + done[n].files

\* The successful GETs of the run.
Transferred == { e \in Gets(events) : events[e].outcome = "ok" }

(***************************************************************************)
(* C20.  At every point of a run the number of stations with data is at    *)
(* most the number of stations finished (which is at most the number       *)
(* listed) and at most the number of files; the number of files is the sum *)
(* of the counts of the finished stations, and the count of a station is   *)
(* the number of its assets transferred or skipped as present.  In a       *)
(* recent or now run a count is 0 or 1, so files and stations with data    *)
(* are equal; in a historical run files is the number of successful GETs   *)
(* plus the number of skipped assets.  The summary reports these numbers.  *)
(***************************************************************************)
C20_Counters ==
    /\ stations_with_data <= Len(processed)
    /\ Len(processed) <= Len(stations)
    /\ stations_with_data <= total_files
    /\ total_files = SumFiles(processed, Len(processed))
    /\ stations_with_data =
          Cardinality({ i \in DOMAIN processed : processed[i].files > 0 })
    /\ \A i \in DOMAIN processed :
          processed[i].files =
              Cardinality({ e \in EventsOf(i) :
                              events[e].outcome \in {"ok", "skipped"} })
    /\ tier \in {"recent", "now"} =>
          /\ total_files = stations_with_data
          /\ \A i \in DOMAIN processed : processed[i].files <= 1
    /\ (tier = "historical" /\ pc \in {"SUMMARIZING", "DONE"}) =>
          total_files =
              Cardinality(Transferred)
                  + Cardinality({ e \in DOMAIN events : events[e].op = "SKIP" })
    /\ pc = "DONE" =>
          /\ summary.stations_with_data = stations_with_data
          /\ summary.files_downloaded = total_files
          /\ summary.stations_with_data <= summary.stations_processed
          /\ summary.stations_with_data <= summary.files_downloaded

\* A second historical run counted more files than it transferred, and more
\* files than stations.
C20_Witness ==
    /\ tier = "historical"
    /\ run = 2
    /\ pc = "DONE"
    /\ Cardinality(Transferred) = 1
    /\ summary.files_downloaded = 3
    /\ summary.stations_with_data = 2
    /\ summary.stations_processed = 4

(***************************************************************************)
(* C21 as stated, in its first half.  In the historical tier an asset      *)
(* whose transfer failed has no local file, so that the next run attempts  *)
(* it again: a GET that did not succeed leaves no file at its destination, *)
(* and a file that a run skips as present holds a body that an earlier     *)
(* transfer delivered.                                                     *)
(***************************************************************************)
C21_FailedTransferRetried ==
    tier = "historical" =>
        /\ \A e \in Gets(events) :
              events[e].outcome # "ok" => events[e].path \notin DOMAIN fs
        /\ \A e \in DOMAIN events :
              events[e].op = "SKIP" => events[e].before \in Versions

====
